---- MODULE Spec2Model ----
(***************************************************************************)
(* A model of LogTailer (src/logtailer.py): a directory of text files is   *)
(* polled; every watched file has an open handle whose position is the     *)
(* read cursor; new content is handed to a callback; rotation is detected  *)
(* by comparing the identity (device, inode) of a path with the key under  *)
(* which its handle is stored.                                             *)
(*                                                                         *)
(* The file system is a second party: it changes between any two system    *)
(* calls of the program.  Every system call of the program (listdir, stat, *)
(* open, getsize, readlines, tail) is one step of the model.               *)
(*                                                                         *)
(* Text is modelled one character per byte over the alphabet {"x", "\n"}.  *)
(* BUFSIZ (1024 in the source) and the size hint (1048576 in the source)   *)
(* are scaled down so that files of a few characters span several blocks   *)
(* and several readlines() calls; the algorithms do not depend on their    *)
(* values.                                                                 *)
(***************************************************************************)
EXTENDS Integers, Sequences, FiniteSets, TLC

\* ------------------------------------------------------------------ bounds
MaxLen == 3        \* longest file content in the engine model
MaxIno == 3        \* inode numbers 1..MaxIno
MaxHandles == 4    \* handles the engine may open in one run
MaxEnvOps == 3     \* file system operations between the calls of one run
MaxRaceOps == 2    \* file system operations during the calls of one run
MaxTailLines == 1  \* tail_lines is drawn from 0..MaxTailLines
MaxFile == 5       \* longest file content given to tail() on its own
MaxWindow == 2     \* largest window given to tail() on its own
MaxCloses == 2     \* close() calls in one run

\* ------------------------------------------------------- program constants
BUFSIZ == 2        \* tail(): block size (scaled)
SizeHint == 1      \* __init__: sizehint (scaled)
Dev == 1           \* the single device of the watched folder

CR == "\n"
Char == {"x", CR}
Names == {"P", "Q"}
NoIno == 0
Inos == 1..MaxIno

\* ---------------------------------------------------------- text helpers
Min(a, b) == IF a < b THEN a ELSE b

Drop(s, k) == SubSeq(s, k + 1, Len(s))

Take(s, k) == SubSeq(s, 1, k)

\* str.count(CR)
Count(s) == Cardinality({i \in 1..Len(s) : s[i] = CR})

\* Length of the first line of s, its line boundary included (s nonempty).
RECURSIVE LineEnd(_, _)
LineEnd(s, i) ==
    IF i >= Len(s) THEN Len(s)
    ELSE IF s[i] = CR THEN i
    ELSE LineEnd(s, i + 1)

\* The lines of s, each with its line boundary when it has one
\* (the elements file.readline() returns until end of file).
RECURSIVE KeepLines(_)
KeepLines(s) ==
    IF s = <<>> THEN <<>>
    ELSE LET k == LineEnd(s, 1)
         IN  <<Take(s, k)>> \o KeepLines(Drop(s, k))

Strip(l) == IF l # <<>> /\ l[Len(l)] = CR THEN Take(l, Len(l) - 1) ELSE l

\* str.splitlines(): the lines without their boundaries.
splitlines(s) == LET k == KeepLines(s) IN [i \in 1..Len(k) |-> Strip(k[i])]

\* seq[-w:] of Python, for w >= 0 (seq[-0:] is the whole of seq).
LastSlice(seq, w) ==
    IF w = 0 \/ w >= Len(seq) THEN seq ELSE Drop(seq, Len(seq) - w)

\* ---------------------------------------------------------------- tail()
Abs(n) == IF n < 0 THEN -n ELSE n

\* f.seek(pos); f.read(n) on the content c.
ReadAt(c, pos, n) == SubSeq(c, pos + 1, Min(pos + n, Len(c)))

\* The while loop of tail(): the data accumulated by the backward block scan.
RECURSIVE TailLoop(_, _, _, _)
TailLoop(c, window, block, data) ==
    LET fsize == Len(c)
        step == block * BUFSIZ
        exit == Abs(step) >= fsize
        newdata == IF exit
                   THEN ReadAt(c, 0, BUFSIZ - (Abs(step) - fsize))
                   ELSE ReadAt(c, fsize + step, BUFSIZ)
        data2 == newdata \o data
    IN  IF Count(data2) >= window \/ exit
        THEN data2
        ELSE TailLoop(c, window, block - 1, data2)

TailData(c, window) == TailLoop(c, window, -1, <<>>)

\* tail(fname, encoding, window) for window >= 0, on the content c.
tail(c, window) == LastSlice(splitlines(TailData(c, window)), window)

\* ----------------------------------------------------------- readlines()
RECURSIVE ReadUpTo(_, _, _)
ReadUpTo(lines, hint, length) ==
    IF lines = <<>> THEN <<>>
    ELSE LET l == Head(lines)
         IN  IF Len(l) > hint - length
             THEN <<l>>
             ELSE <<l>> \o ReadUpTo(Tail(lines), hint, length + Len(l))

\* file.readlines(hint) on a handle at position pos of content c: the lines
\* from pos on, boundaries kept, until their total length exceeds hint.
\* A position beyond the end of the file reads nothing.
readlines(c, pos, hint) ==
    IF pos >= Len(c) THEN <<>>
    ELSE IF hint <= 0 THEN KeepLines(Drop(c, pos))
    ELSE ReadUpTo(KeepLines(Drop(c, pos)), hint, 0)

RECURSIVE SumLen(_)
SumLen(lines) == IF lines = <<>> THEN 0 ELSE Len(Head(lines)) + SumLen(Tail(lines))

\* ------------------------------------------------------------------ state
VARIABLES
    dir,        \* the watched folder: name -> inode number, NoIno when absent
    content,    \* inode number -> the characters of that physical file
    files,      \* the file objects of the engine, by handle number:
                \* [name, ino, pos, open]
    table,      \* _files_map: sequence of [fid, h], in insertion order
    tailLines,  \* tail_lines
    fileNames,  \* fileNames
    pc,         \* the statement the engine is at
    op,         \* the call in progress: "init", "tick" or "none"
    todo,       \* update_files: names listed and not yet stat()ed
    ls,         \* update_files: ls
    snap,       \* the list of items being iterated
    wname,      \* watch(): fname
    wh,         \* watch(): file
    wret,       \* where watch() returns to
    rh,         \* readLines(): file
    rret,       \* where readLines() returns to
    closing,    \* readLines() runs inside unwatch()'s with block
    envops,     \* file system operations done by other processes
    cnt,        \* history: inode -> per character, times handed to the callback
    pre,        \* history: inode -> characters it held when construction began
    cb,         \* history: the callback call made by the last step, if any
    quiet,      \* history: no file system operation since the last tick began
    retired,    \* history: inode -> unwatch() calls for its identity
    admitted,   \* history: inode -> handles stored under its identity
    truncated,  \* history: inode -> truncated in place since it was created
    moved,      \* history: inode -> the name it was last renamed from, or ""
    closes,     \* history: the number of close() calls
    tfile,      \* tail() on its own: the file content
    twin,       \* tail() on its own: window
    tres        \* tail() on its own: <<>> before the call, then <<result>>

fsVars == <<dir, content>>
cfgVars == <<tailLines, fileNames>>
upVars == <<todo, ls, snap>>
callVars == <<wname, wh, wret, rh, rret, closing>>
histVars == <<cnt, pre, retired, admitted, truncated, moved, closes>>
tailVars == <<tfile, twin, tres>>
vars == <<dir, content, files, table, tailLines, fileNames, pc, op, todo, ls,
          snap, wname, wh, wret, rh, rret, closing, envops, cnt, pre, cb, quiet,
          retired, admitted, truncated, moved, closes, tfile, twin, tres>>

\* get_file_id(st) on posix: device and inode number.
get_file_id(st) == <<st.dev, st.ino>>

\* The inode number of the one file of the folder that is not regular: a
\* directory.
DirIno == MaxIno + 1

\* os.stat(name): the metadata read by the engine; defined when name exists.
\* reg is stat.S_ISREG(st.st_mode).
stat(name) == [dev |-> Dev, ino |-> dir[name], reg |-> dir[name] # DirIno]

Exists(name) == dir[name] # NoIno

\* The name refers to a directory.
IsDir(name) == dir[name] = DirIno

\* The name refers to a regular file.
IsReg(name) == Exists(name) /\ ~IsDir(name)

\* fid in self._files_map
HasKey(t, fid) == \E i \in 1..Len(t) : t[i].fid = fid

\* del self._files_map[fid]
DelKey(t, fid) == SelectSeq(t, LAMBDA e : e.fid # fid)

\* self._files_map[fid] = file
PutKey(t, fid, h) ==
    IF HasKey(t, fid)
    THEN [i \in 1..Len(t) |-> IF t[i].fid = fid THEN [fid |-> fid, h |-> h] ELSE t[i]]
    ELSE Append(t, [fid |-> fid, h |-> h])

\* listdir(): the names present, restricted to fileNames when it is not empty.
listdir == {n \in Names : Exists(n) /\ (fileNames = {} \/ n \in fileNames)}

Orders(S) ==
    {s \in [1..Cardinality(S) -> S] : \A i, j \in 1..Cardinality(S) : i # j => s[i] # s[j]}

\* A file object after close(), and a handle number never used.
Closed == [name |-> "", ino |-> NoIno, pos |-> 0, open |-> FALSE]

Handles == 1..MaxHandles

\* The handle number a newly opened file object gets.
NewHandle == CHOOSE h \in Handles : ~files[h].open /\ \A g \in 1..(h - 1) : files[g].open

InTable(h) == \E i \in 1..Len(table) : table[i].h = h

\* One more delivery of the characters from + 1 .. to of a file.
Bump(c, from, to) ==
    [i \in 1..Len(c) |-> IF i > from /\ i <= to /\ c[i] < 2 THEN c[i] + 1 ELSE c[i]]

Inc(n) == IF n < 2 THEN n + 1 ELSE n

NoCall == <<>>

\* ------------------------------------------------------------------- Init
SeqsUpTo(k) == UNION {[1..n -> Char] : n \in 0..k}

\* What a file holds before the engine is constructed.
InitContents == {<<>>, <<"x", CR>>, <<CR, "x">>}

NoLocals ==
    /\ todo = <<>>
    /\ ls = <<>>
    /\ snap = <<>>
    /\ wname = ""
    /\ wh = 0
    /\ wret = ""
    /\ rh = 0
    /\ rret = ""
    /\ closing = FALSE

NoHistory ==
    /\ cnt = [i \in Inos |-> [k \in 1..Len(content[i]) |-> 0]]
    /\ pre = [i \in Inos |-> Len(content[i])]
    /\ cb = NoCall
    /\ quiet = FALSE
    /\ retired = [i \in Inos |-> 0]
    /\ admitted = [i \in Inos |-> 0]
    /\ truncated = [i \in Inos |-> FALSE]
    /\ moved = [i \in Inos |-> ""]
    /\ closes = 0

\* The folder before LogTailer(...) is called: P and Q, each absent or a
\* regular file; self.folder, self.fileNames, self._files_map = {} are set.
Init ==
    /\ dir \in {d \in [Names -> 0..2] : d["P"] \in {NoIno, 1} /\ d["Q"] \in {NoIno, 2}}
    /\ content \in [Inos -> InitContents]
    /\ \A i \in Inos : (\A n \in Names : dir[n] # i) => content[i] = <<>>
    /\ files = [h \in Handles |-> Closed]
    /\ table = <<>>
    /\ tailLines \in 0..MaxTailLines
    /\ fileNames \in {{}, {"P"}}
    /\ pc = "listdir"
    /\ op = "init"
    /\ NoLocals
    /\ envops = 0
    /\ NoHistory
    /\ tfile = <<>>
    /\ twin = 0
    /\ tres = <<>>

\* ------------------------------------------------- the rest of the system
\* An inode number is free when no name refers to it and no handle holds it.
Free(i) ==
    /\ \A n \in Names : dir[n] # i
    /\ \A h \in Handles : files[h].ino # i

\* What every file system operation of another process leaves alone; the
\* folder is followed for as long as the engine lives.
EnvStep ==
    /\ pc \notin {"stopped", "raised"}
    /\ envops' = envops + 1
    /\ quiet' = FALSE
    /\ cb' = NoCall
    /\ UNCHANGED <<files, table, cfgVars, pc, op, upVars, callVars, closes,
                   tailVars>>

\* A writer appends one character to the file called n.
WriteChar(n, ch) ==
    /\ IsReg(n)
    /\ Len(content[dir[n]]) < MaxLen
    /\ content' = [content EXCEPT ![dir[n]] = Append(@, ch)]
    /\ cnt' = [cnt EXCEPT ![dir[n]] = Append(@, 0)]
    /\ UNCHANGED <<dir, pre, truncated, retired, admitted, moved>>
    /\ EnvStep

\* os.remove(n), or os.rmdir(n) of a directory
Delete(n) ==
    /\ Exists(n)
    /\ dir' = [dir EXCEPT ![n] = NoIno]
    /\ UNCHANGED <<content, cnt, pre, truncated, retired, admitted, moved>>
    /\ EnvStep

\* A new empty regular file is created under the name n.
Create(n, i) ==
    /\ ~Exists(n)
    /\ Free(i)
    /\ dir' = [dir EXCEPT ![n] = i]
    /\ content' = [content EXCEPT ![i] = <<>>]
    /\ cnt' = [cnt EXCEPT ![i] = <<>>]
    /\ pre' = [pre EXCEPT ![i] = 0]
    /\ truncated' = [truncated EXCEPT ![i] = FALSE]
    /\ retired' = [retired EXCEPT ![i] = 0]
    /\ admitted' = [admitted EXCEPT ![i] = 0]
    /\ moved' = [moved EXCEPT ![i] = ""]
    /\ EnvStep

\* os.rename(n, m) inside the folder; a file already called m is replaced
\* (a directory replaces no file and no file replaces a directory).
Rename(n, m) ==
    /\ n # m
    /\ Exists(n)
    /\ IsDir(n) => ~Exists(m)
    /\ ~IsDir(m)
    /\ dir' = [dir EXCEPT ![m] = dir[n], ![n] = NoIno]
    /\ moved' = IF IsDir(n) THEN moved ELSE [moved EXCEPT ![dir[n]] = n]
    /\ UNCHANGED <<content, cnt, pre, truncated, retired, admitted>>
    /\ EnvStep

\* The file called n is truncated to length 0 in place (same inode).
Truncate(n) ==
    /\ IsReg(n)
    /\ content[dir[n]] # <<>>
    /\ content' = [content EXCEPT ![dir[n]] = <<>>]
    /\ cnt' = [cnt EXCEPT ![dir[n]] = <<>>]
    /\ pre' = [pre EXCEPT ![dir[n]] = 0]
    /\ truncated' = [truncated EXCEPT ![dir[n]] = TRUE]
    /\ UNCHANGED <<dir, retired, admitted, moved>>
    /\ EnvStep

\* os.mkdir(n): the name n now refers to a directory.
Mkdir(n) ==
    /\ ~Exists(n)
    /\ \A m \in Names : ~IsDir(m)
    /\ dir' = [dir EXCEPT ![n] = DirIno]
    /\ UNCHANGED <<content, cnt, pre, truncated, retired, admitted, moved>>
    /\ EnvStep

\* ------------------------------------------------------------ the engine
\* self._callback(name, lines)
Callback(name, lines) == cb' = <<[name |-> name, lines |-> lines]>>

\* update_files(): ls = []; for name in self.listdir()
ListDir ==
    /\ pc = "listdir"
    /\ \E order \in Orders(listdir) : todo' = order
    /\ ls' = <<>>
    /\ pc' = "stat"
    /\ cb' = NoCall
    /\ UNCHANGED <<fsVars, files, table, cfgVars, op, snap, callVars, envops,
                   histVars, quiet, tailVars>>

\* update_files(): st = os.stat(absname) for the next listed name; a name
\* that has vanished and a file that is not regular are skipped, the others
\* are appended to ls.
StatListed ==
    /\ pc = "stat"
    /\ todo # <<>>
    /\ LET name == Head(todo)
       IN  ls' = IF Exists(name) /\ stat(name).reg
                 THEN Append(ls, [fid |-> get_file_id(stat(name)), name |-> name])
                 ELSE ls
    /\ todo' = Tail(todo)
    /\ cb' = NoCall
    /\ UNCHANGED <<fsVars, files, table, cfgVars, pc, op, snap, callVars, envops,
                   histVars, quiet, tailVars>>

\* update_files(): for fid, file in list(self._files_map.items())
StatDone ==
    /\ pc = "stat"
    /\ todo = <<>>
    /\ snap' = table
    /\ pc' = "check"
    /\ cb' = NoCall
    /\ UNCHANGED <<fsVars, files, table, cfgVars, op, todo, ls, callVars, envops,
                   histVars, quiet, tailVars>>

\* unwatch() without its with block: the key is deleted and the file is read
\* for the last time, but the file is not closed afterwards.
UnwatchNoClose(h, fid, ret) ==
    IF HasKey(table, fid)
    THEN /\ table' = DelKey(table, fid)
         /\ retired' = IF fid[2] \in Inos
                       THEN [retired EXCEPT ![fid[2]] = Inc(@)]
                       ELSE retired
         /\ rh' = h
         /\ rret' = ret
         /\ closing' = FALSE
         /\ pc' = "read"
    ELSE /\ pc' = "raised"
         /\ UNCHANGED <<table, retired, rh, rret, closing>>

\* unwatch(file, fid) up to its with block: the key is deleted and the file
\* is read for the last time; ret is where the caller goes on afterwards.
\* Deleting a key the map does not hold raises KeyError.
Unwatch(h, fid, ret) ==
    IF HasKey(table, fid)
    THEN /\ table' = DelKey(table, fid)
         /\ retired' = IF fid[2] \in Inos
                       THEN [retired EXCEPT ![fid[2]] = Inc(@)]
                       ELSE retired
         /\ rh' = h
         /\ rret' = ret
         /\ closing' = TRUE
         /\ pc' = "read"
    ELSE /\ pc' = "raised"
         /\ UNCHANGED <<table, retired, rh, rret, closing>>

\* update_files(): the check of one watched file: os.stat(file.name), then
\* unwatch() when the name is gone, unwatch() and watch() when the name
\* refers to another file.
CheckWatched ==
    /\ pc = "check"
    /\ snap # <<>>
    /\ LET e == Head(snap)
           name == files[e.h].name
       IN  IF ~Exists(name)
           THEN /\ Unwatch(e.h, e.fid, "check")
                /\ UNCHANGED <<wname, wh, wret>>
           ELSE IF e.fid # get_file_id(stat(name))
           THEN /\ Unwatch(e.h, e.fid, "open")
                /\ wname' = name
                /\ wret' = "check"
                /\ UNCHANGED wh
           ELSE UNCHANGED <<table, retired, callVars, pc>>
    /\ snap' = Tail(snap)
    /\ cb' = NoCall
    /\ UNCHANGED <<fsVars, files, cfgVars, op, todo, ls, envops, cnt, pre,
                   admitted, truncated, moved, closes,
                   quiet, tailVars>>

CheckDone ==
    /\ pc = "check"
    /\ snap = <<>>
    /\ pc' = "add"
    /\ cb' = NoCall
    /\ UNCHANGED <<fsVars, files, table, cfgVars, op, upVars, callVars, envops,
                   histVars, quiet, tailVars>>

\* update_files() without "if fid not in self._files_map": every listed file
\* is watched again on every pass.
AddListedNoCheck ==
    /\ pc = "add"
    /\ ls # <<>>
    /\ ls' = Tail(ls)
    /\ wname' = Head(ls).name
    /\ wret' = "add"
    /\ pc' = "open"
    /\ cb' = NoCall
    /\ UNCHANGED <<fsVars, files, table, cfgVars, op, todo, snap, wh, rh, rret,
                   closing, envops, histVars, quiet, tailVars>>

\* update_files(): for fid, fname in ls: if fid not in self._files_map:
\* self.watch(fname)
AddListed ==
    /\ pc = "add"
    /\ ls # <<>>
    /\ ls' = Tail(ls)
    /\ IF HasKey(table, Head(ls).fid)
       THEN UNCHANGED <<pc, wname, wret>>
       ELSE /\ wname' = Head(ls).name
            /\ wret' = "add"
            /\ pc' = "open"
    /\ cb' = NoCall
    /\ UNCHANGED <<fsVars, files, table, cfgVars, op, todo, snap, wh, rh, rret,
                   closing, envops, histVars, quiet, tailVars>>

\* update_files() returns: to __init__'s loop over the files, or to loop()'s.
AddDone ==
    /\ pc = "add"
    /\ ls = <<>>
    /\ snap' = table
    /\ pc' = IF op = "init" THEN "seek" ELSE "loop"
    /\ cb' = NoCall
    /\ UNCHANGED <<fsVars, files, table, cfgVars, op, todo, ls, callVars, envops,
                   histVars, quiet, tailVars>>

\* watch(): file = self.open(fname, self.encoding); ENOENT is swallowed,
\* the IsADirectoryError of a directory is raised again.
WatchOpen ==
    /\ pc = "open"
    /\ IF IsDir(wname)
       THEN /\ pc' = "raised"
            /\ UNCHANGED <<files, wname, wh, wret>>
       ELSE IF Exists(wname)
       THEN /\ \E h \in Handles : ~files[h].open
            /\ files' = [files EXCEPT ![NewHandle] =
                            [name |-> wname, ino |-> dir[wname], pos |-> 0,
                             open |-> TRUE]]
            /\ wh' = NewHandle
            /\ pc' = "wstat"
            /\ UNCHANGED <<wname, wret>>
       ELSE /\ pc' = wret
            /\ wname' = ""
            /\ wret' = ""
            /\ UNCHANGED <<files, wh>>
    /\ cb' = NoCall
    /\ UNCHANGED <<fsVars, table, cfgVars, op, upVars, rh, rret, closing, envops,
                   histVars, quiet, tailVars>>

\* watch(): fid = self.get_file_id(os.stat(fname)); ENOENT is swallowed and
\* the file object just opened is dropped; else self._files_map[fid] = file.
WatchStat ==
    /\ pc = "wstat"
    /\ IF Exists(wname)
       THEN LET fid == get_file_id(stat(wname))
            IN  /\ table' = PutKey(table, fid, wh)
                /\ admitted' = IF fid[2] \in Inos
                                THEN [admitted EXCEPT ![fid[2]] = Inc(@)]
                                ELSE admitted
       ELSE UNCHANGED <<table, admitted>>
    /\ pc' = wret
    /\ wname' = ""
    /\ wh' = 0
    /\ wret' = ""
    /\ cb' = NoCall
    /\ UNCHANGED <<fsVars, files, cfgVars, op, upVars, rh, rret, closing, envops,
                   cnt, pre, retired, truncated, moved, closes,
                   quiet, tailVars>>

\* readLines(): one lines = file.readlines(self._sizehint); the callback is
\* called when lines is not empty, else the loop ends (and unwatch()'s with
\* block closes the file).  Reading a closed file raises ValueError.
ReadLines ==
    /\ pc = "read"
    /\ LET f == files[rh]
           lines == IF f.open THEN readlines(content[f.ino], f.pos, SizeHint)
                    ELSE <<>>
           n == SumLen(lines)
       IN  IF ~f.open
           THEN /\ pc' = "raised"
                /\ cb' = NoCall
                /\ UNCHANGED <<files, cnt, rh, rret, closing>>
           ELSE IF lines = <<>>
           THEN /\ files' = IF closing THEN [files EXCEPT ![rh] = Closed]
                            ELSE files
                /\ pc' = rret
                /\ rh' = 0
                /\ rret' = ""
                /\ closing' = FALSE
                /\ cb' = NoCall
                /\ UNCHANGED cnt
           ELSE /\ files' = [files EXCEPT ![rh].pos = @ + n]
                /\ cnt' = [cnt EXCEPT ![f.ino] = Bump(@, f.pos, f.pos + n)]
                /\ Callback(f.name, lines)
                /\ UNCHANGED <<pc, rh, rret, closing>>
    /\ UNCHANGED <<fsVars, table, cfgVars, op, upVars, wname, wh, wret, envops,
                   pre, retired, admitted, truncated, moved, closes,
                   quiet, tailVars>>

\* os.path.getsize(name) of a name that exists: the length of a regular
\* file; the size of a directory is whatever the file system reports.
getsize(name) ==
    IF IsDir(name) THEN 0..MaxLen ELSE {Len(content[dir[name]])}

\* __init__: file.seek(os.path.getsize(file.name)) for the next file of
\* self._files_map; getsize of a name that has vanished raises, and nothing
\* catches it.
SeekEnd ==
    /\ pc = "seek"
    /\ snap # <<>>
    /\ LET h == Head(snap).h
           name == files[h].name
       IN  IF ~Exists(name)
           THEN /\ pc' = "raised"
                /\ UNCHANGED <<files, snap>>
           ELSE /\ \E size \in getsize(name) :
                     files' = [files EXCEPT ![h].pos = size]
                /\ IF tailLines # 0
                   THEN pc' = "tail" /\ UNCHANGED snap
                   ELSE pc' = pc /\ snap' = Tail(snap)
    /\ cb' = NoCall
    /\ UNCHANGED <<fsVars, table, cfgVars, op, todo, ls, callVars, envops,
                   histVars, quiet, tailVars>>

\* The characters of c that tail(c, window) returns as lines: a suffix of c.
TailSpan(c, window) == SumLen(LastSlice(KeepLines(TailData(c, window)), window))

\* __init__'s bootstrap tail without "if lines:": the callback is called with
\* whatever tail() returned.
InitTailNoCheck ==
    /\ pc = "tail"
    /\ LET name == files[Head(snap).h].name
           c == content[dir[name]]
           lines == tail(c, tailLines)
       IN  IF IsDir(name)
           THEN /\ pc' = "raised"
                /\ cb' = NoCall
                /\ UNCHANGED <<cnt, snap>>
           ELSE /\ IF Exists(name)
                   THEN /\ Callback(name, lines)
                        /\ cnt' = [cnt EXCEPT ![dir[name]] =
                              Bump(@, Len(c) - TailSpan(c, tailLines), Len(c))]
                   ELSE /\ cb' = NoCall
                        /\ UNCHANGED cnt
                /\ snap' = Tail(snap)
                /\ pc' = "seek"
    /\ UNCHANGED <<fsVars, files, table, cfgVars, op, todo, ls, callVars, envops,
                   pre, retired, admitted, truncated, moved, closes,
                   quiet, tailVars>>

\* __init__: lines = self.tail(file.name, self.encoding, tail_lines); ENOENT
\* is swallowed, the IsADirectoryError of a directory is raised again; the
\* callback is called when lines is not empty.
InitTail ==
    /\ pc = "tail"
    /\ LET name == files[Head(snap).h].name
           c == content[dir[name]]
           lines == tail(c, tailLines)
       IN  IF IsDir(name)
           THEN /\ pc' = "raised"
                /\ cb' = NoCall
                /\ UNCHANGED <<cnt, snap>>
           ELSE /\ IF Exists(name) /\ lines # <<>>
                   THEN /\ Callback(name, lines)
                        /\ cnt' = [cnt EXCEPT ![dir[name]] =
                              Bump(@, Len(c) - TailSpan(c, tailLines), Len(c))]
                   ELSE /\ cb' = NoCall
                        /\ UNCHANGED cnt
                /\ snap' = Tail(snap)
                /\ pc' = "seek"
    /\ UNCHANGED <<fsVars, files, table, cfgVars, op, todo, ls, callVars, envops,
                   pre, retired, admitted, truncated, moved, closes,
                   quiet, tailVars>>

\* __init__ returns.
InitDone ==
    /\ pc = "seek"
    /\ snap = <<>>
    /\ pc' = "idle"
    /\ op' = "none"
    /\ cb' = NoCall
    /\ UNCHANGED <<fsVars, files, table, cfgVars, upVars, callVars, envops,
                   histVars, quiet, tailVars>>

\* loop(): one iteration begins with self.update_files().
StartTick ==
    /\ pc = "idle"
    /\ pc' = "listdir"
    /\ op' = "tick"
    /\ quiet' = TRUE
    /\ cb' = NoCall
    /\ UNCHANGED <<fsVars, files, table, cfgVars, upVars, callVars, envops,
                   histVars, tailVars>>

\* loop(): self.readLines(file) for the next file of the list of items.
LoopRead ==
    /\ pc = "loop"
    /\ snap # <<>>
    /\ rh' = Head(snap).h
    /\ rret' = "loop"
    /\ closing' = FALSE
    /\ pc' = "read"
    /\ snap' = Tail(snap)
    /\ cb' = NoCall
    /\ UNCHANGED <<fsVars, files, table, cfgVars, op, todo, ls, wname, wh, wret,
                   envops, histVars, quiet, tailVars>>

\* loop(): the iteration ends (blocking = False returns; else sleep).
LoopDone ==
    /\ pc = "loop"
    /\ snap = <<>>
    /\ pc' = "idle"
    /\ op' = "none"
    /\ cb' = NoCall
    /\ UNCHANGED <<fsVars, files, table, cfgVars, upVars, callVars, envops,
                   histVars, quiet, tailVars>>

\* close() without self._files_map.clear(): the files are closed and stay in
\* the map.
CloseNoClear ==
    /\ pc \in {"idle", "stopped"}
    /\ closes < MaxCloses
    /\ closes' = closes + 1
    /\ files' = [h \in Handles |-> IF InTable(h) THEN Closed ELSE files[h]]
    /\ pc' = "stopped"
    /\ cb' = NoCall
    /\ UNCHANGED <<fsVars, table, cfgVars, op, upVars, callVars, envops, cnt, pre,
                   retired, admitted, truncated, moved, quiet, tailVars>>

\* close(), between two iterations or after the last, and again after a
\* close(): every file of self._files_map is closed (closing a closed file
\* does nothing), and the map cleared.
Close ==
    /\ pc \in {"idle", "stopped"}
    /\ closes < MaxCloses
    /\ closes' = closes + 1
    /\ files' = [h \in Handles |-> IF InTable(h) THEN Closed ELSE files[h]]
    /\ table' = <<>>
    /\ pc' = "stopped"
    /\ cb' = NoCall
    /\ UNCHANGED <<fsVars, cfgVars, op, upVars, callVars, envops, cnt, pre,
                   retired, admitted, truncated, moved, quiet, tailVars>>

Engine ==
    \/ ListDir \/ StatListed \/ StatDone
    \/ CheckWatched \/ CheckDone
    \/ AddListed \/ AddDone
    \/ WatchOpen \/ WatchStat
    \/ ReadLines
    \/ SeekEnd \/ InitTail \/ InitDone
    \/ StartTick \/ LoopRead \/ LoopDone
    \/ Close

\* The engine and the other processes, interleaved at every system call.
Racing == envops < MaxRaceOps

Next ==
    \/ Engine
    \/ Racing /\ \E n \in Names, ch \in Char : WriteChar(n, ch)
    \/ Racing /\ \E n \in Names : Delete(n)
    \/ Racing /\ \E n \in Names, i \in Inos : Create(n, i)
    \/ Racing /\ \E n, m \in Names : Rename(n, m)
    \/ Racing /\ \E n \in Names : Truncate(n)
    \/ Racing /\ \E n \in Names : Mkdir(n)

Spec == Init /\ [][Next]_vars

\* The engine driven as by a test of rotation by delete and recreate: files
\* are written, deleted and created, and only between two calls of the engine.
Between == pc = "idle" /\ envops < MaxEnvOps

NextSeq ==
    \/ Engine
    \/ Between /\ \E n \in Names, ch \in Char : WriteChar(n, ch)
    \/ Between /\ \E n \in Names : Delete(n)
    \/ Between /\ \E n \in Names, i \in Inos : Create(n, i)

SpecSeq == Init /\ [][NextSeq]_vars

\* The engine driven as by a test of any rotation: the folder changes in
\* every way, and only between two calls of the engine.
NextTest ==
    \/ Engine
    \/ Between /\ \E n \in Names, ch \in Char : WriteChar(n, ch)
    \/ Between /\ \E n \in Names : Delete(n)
    \/ Between /\ \E n \in Names, i \in Inos : Create(n, i)
    \/ Between /\ \E n, m \in Names : Rename(n, m)
    \/ Between /\ \E n \in Names : Truncate(n)
    \/ Between /\ \E n \in Names : Mkdir(n)

SpecTest == Init /\ [][NextTest]_vars

\* ------------------------------------------------------ tail() on its own
InitTailOnly ==
    /\ dir = [n \in Names |-> NoIno]
    /\ content = [i \in Inos |-> <<>>]
    /\ files = [h \in Handles |-> Closed]
    /\ table = <<>>
    /\ tailLines = 0
    /\ fileNames = {}
    /\ pc = "off"
    /\ op = "none"
    /\ NoLocals
    /\ envops = 0
    /\ NoHistory
    /\ tfile \in SeqsUpTo(MaxFile)
    /\ twin \in -1..MaxWindow
    /\ tres = <<>>

\* tail() without its test of window: a negative window is taken for its
\* absolute value.
CallTailNoCheck ==
    /\ tres = <<>>
    /\ tres' = <<[raised |-> FALSE, opens |-> 1, lines |-> tail(tfile, Abs(twin))]>>
    /\ UNCHANGED <<fsVars, files, table, cfgVars, pc, op, upVars, callVars,
                   envops, histVars, cb, quiet, tfile, twin>>

\* LogTailer.tail(fname, encoding, window): ValueError when window < 0,
\* raised before cls.open(); else the file is opened once, read and closed.
\* opens is the number of cls.open() calls the call has made.
CallTail ==
    /\ tres = <<>>
    /\ tres' = IF twin < 0
               THEN <<[raised |-> TRUE, opens |-> 0, lines |-> <<>>]>>
               ELSE <<[raised |-> FALSE, opens |-> 1, lines |-> tail(tfile, twin)]>>
    /\ UNCHANGED <<fsVars, files, table, cfgVars, pc, op, upVars, callVars,
                   envops, histVars, cb, quiet, tfile, twin>>

SpecTail == InitTailOnly /\ [][CallTail]_vars

\* ================================================================= claims
\* A tick has run from its beginning to its end since the folder last changed.
Settled == pc = "idle" /\ quiet

Linked(i) == \E n \in Names : dir[n] = i

\* n is a name the scan of update_files() keeps: it exists, passes the name
\* filter and refers to a regular file.
Listed(n) == n \in listdir /\ IsReg(n)

Held(i) == \E h \in Handles : files[h].open /\ files[h].ino = i

\* The last lines of the file, whole and in file order.
TrueLast(c, n) ==
    LET all == splitlines(c)
    IN  IF n >= Len(all) THEN all ELSE Drop(all, Len(all) - n)

\* C9: tail(path, N) returns exactly min(N, number of lines of the file)
\* lines, for every N >= 0 (N = 0 included) and every file content.
C9_TailCount ==
    (tres # <<>> /\ twin >= 0) =>
        Len(tres[1].lines) = Min(twin, Len(splitlines(tfile)))

\* C10: for N >= 1, every element tail(path, N) returns is a whole line of
\* the file, and the result is the file's last lines in file order (a line
\* cut by a block boundary is not returned as a line).
C10_TailWholeLines ==
    (tres # <<>> /\ twin >= 1) => tres[1].lines = TrueLast(tfile, twin)

\* C8: no operation of the engine raises because a file vanished between
\* being listed and being accessed (no name of the folder refers to a
\* directory, so that nothing has raised for that reason).
C8_NeverRaises == (\A n \in Names : ~IsDir(n)) => pc # "raised"

\* C6: no file object is open while nothing refers to it: every open handle
\* is in the watch table, or is the file of a watch() or readLines() call in
\* progress, or is in the list of items being iterated.
C6_NoLeak ==
    \A h \in Handles :
        files[h].open =>
            \/ InTable(h)
            \/ h = wh
            \/ h = rh
            \/ \E k \in 1..Len(snap) : snap[k].h = h

\* C5: the read of a watched file during a tick never hands the callback a
\* fragment: the last line of every batch it delivers ends with a line
\* boundary (so no line is split across two callback calls).
C5_NoFragment ==
    (pc = "read" /\ ~closing /\ cb # NoCall) =>
        LET lines == cb[1].lines
            last == lines[Len(lines)]
        IN  last[Len(last)] = CR

\* Every character of file i from position from + 1 on was delivered once.
DeliveredOnce(i, from) == \A p \in (from + 1)..Len(cnt[i]) : cnt[i][p] = 1

\* The table holds the file called n under its identity, with a handle that
\* has that file open under that name.
Watched(n) ==
    \E k \in 1..Len(table) :
        /\ table[k].fid = get_file_id(stat(n))
        /\ files[table[k].h].open
        /\ files[table[k].h].ino = dir[n]
        /\ files[table[k].h].name = n

\* C1: rotation by delete and recreate.  No identity is retired twice or
\* admitted twice and no character is delivered twice; and once a tick has
\* run after the rotation, the identity that lost its name has been retired
\* exactly once, the new file is in the table, admitted exactly once, and
\* every character written to it has been delivered exactly once.
C1_DeleteRecreate ==
    /\ \A i \in Inos : retired[i] <= 1 /\ admitted[i] <= 1
    /\ \A i \in Inos : \A p \in 1..Len(cnt[i]) : cnt[i][p] <= 1
    /\ Settled =>
          /\ \A i \in Inos : (~Linked(i) /\ admitted[i] = 1) => retired[i] = 1
          /\ \A n \in Names : Listed(n) =>
                /\ Watched(n)
                /\ admitted[dir[n]] = 1
                /\ retired[dir[n]] = 0
                /\ DeliveredOnce(dir[n], pre[dir[n]])

\* C1 happens: P held file 1 at construction, whose last line was delivered;
\* file 1 was deleted, file 3 created as P and a line written to it; a tick
\* has run.
C1_Rotated ==
    /\ Settled
    /\ dir["P"] = 3
    /\ admitted[1] = 1 /\ retired[1] = 1
    /\ \E p \in 1..Len(cnt[1]) : cnt[1][p] = 1
    /\ admitted[3] = 1
    /\ content[3] # <<>>
    /\ content[3][Len(content[3])] = CR

\* C7: deletion.  Once a tick has run after a watched file lost its name,
\* every character appended to it while it was watched has been delivered,
\* its handle is closed and its identity is no key of the table; and no tick
\* raises.
C7_DeletionDrained ==
    /\ op = "tick" => pc # "raised"
    /\ Settled =>
          \A i \in Inos : (~Linked(i) /\ admitted[i] >= 1) =>
              /\ \A p \in (pre[i] + 1)..Len(cnt[i]) : cnt[i][p] >= 1
              /\ ~Held(i)
              /\ ~HasKey(table, <<Dev, i>>)

\* C7 happens: the final read of unwatch() has just delivered content of a
\* file whose name is gone.
C7_FinalDrain ==
    /\ pc = "read" /\ closing /\ cb # NoCall
    /\ ~Exists(cb[1].name)
    /\ \A n \in Names : dir[n] # files[rh].ino

\* i was renamed from a name that passes the filter and now holds another
\* file, and i still has a name the engine lists.
RotatedByRename(i) ==
    /\ moved[i] # ""
    /\ Exists(moved[i])
    /\ dir[moved[i]] # i
    /\ \E n \in Names : dir[n] = i /\ Listed(n)

\* C2: rotation by rename.  Once a file was renamed inside the folder and a
\* new file holds its old name, no step of a tick delivers again a character
\* of the renamed file that was delivered before.
C2_NoRedelivery ==
    [][\A i \in Inos :
          (op = "tick" /\ RotatedByRename(i) /\ Len(cnt'[i]) = Len(cnt[i])) =>
              \A p \in 1..Len(cnt[i]) : cnt[i][p] = 1 => cnt'[i][p] = 1]_vars

\* The characters of c up to its last line boundary: its complete lines.
CompleteLen(c) ==
    IF Count(c) = 0 THEN 0
    ELSE CHOOSE k \in 1..Len(c) : c[k] = CR /\ \A j \in (k + 1)..Len(c) : c[j] # CR

\* C3: rotation by truncation in place.  Once a tick has run after a listed
\* file was truncated and written again, every complete line written since
\* the truncation has been delivered.
C3_TruncationDelivered ==
    Settled =>
        \A n \in Names : (Listed(n) /\ truncated[dir[n]]) =>
            \A p \in 1..CompleteLen(content[dir[n]]) : cnt[dir[n]][p] >= 1

\* C4: with tail_lines = 0 and no name filter (every file present at
\* construction is watched), no character that a file held when the engine
\* was constructed is ever delivered.
C4_NoReplay ==
    (tailLines = 0 /\ fileNames = {}) =>
        \A i \in Inos : \A p \in 1..Min(pre[i], Len(cnt[i])) : cnt[i][p] = 0

\* C11: the callback is never called with an empty list of lines, be it by
\* the bootstrap tail, by the read of a tick or by the final read of
\* unwatch().
C11_NeverEmpty == cb # NoCall => cb[1].lines # <<>>

\* C11 happens: the bootstrap tail has just called the callback, for a file
\* that is not empty, and another watched file is empty (tail() returned no
\* line for it and the callback was not called).
C11_TailDelivered ==
    /\ op = "init" /\ pc = "seek" /\ cb # NoCall
    /\ \E k \in 1..Len(table) : content[files[table[k].h].ino] = <<>>

\* C12: no line handed to the callback ends with a line boundary.
C12_Stripped ==
    cb # NoCall =>
        \A k \in 1..Len(cb[1].lines) :
            LET l == cb[1].lines[k] IN l = <<>> \/ l[Len(l)] # CR

\* C13: close() is idempotent.  No close() raises; after the first and after
\* the second, the table is empty and every file that was in it is closed.
C13_CloseIdempotent ==
    [][closes' # closes =>
          /\ pc' = "stopped"
          /\ table' = <<>>
          /\ \A h \in Handles : InTable(h) => ~files'[h].open]_vars

\* C13 happens: close() was called twice, the first time with a file in the
\* table.
C13_ClosedTwice ==
    /\ closes = 2
    /\ pc = "stopped"
    /\ \E i \in Inos : admitted[i] >= 1 /\ retired[i] = 0 /\ ~Held(i)

\* C14: tail(path, N) with N < 0 raises ValueError before the file is
\* opened: no open() call is made and no line is returned.
C14_NegativeWindow ==
    (tres # <<>> /\ twin < 0) =>
        /\ tres[1].raised
        /\ tres[1].opens = 0
        /\ tres[1].lines = <<>>

\* C14 happens: tail() was called with a negative window on a file that has
\* lines.
C14_NegativeCalled == tres # <<>> /\ twin < 0 /\ Count(tfile) >= 1

\* C15: when a tick's pass over the listed files ("add new ones") stores a
\* file in the table, the cursor of its handle is at the end of the file it
\* has open, so that what the file holds at admission is not read.
C15_AdmittedAtEnd ==
    [][(op = "tick" /\ pc = "wstat" /\ wret = "add" /\ table' # table) =>
          files'[wh].pos = Len(content'[files'[wh].ino])]_vars

\* C16: the work of one tick on one file is bounded by the size hint: one
\* readLines() call of a tick hands the callback at most one batch, as large
\* as one readlines(sizehint) returns, and leaves the rest to later ticks.
C16_OneBatchPerTick ==
    [][~(/\ pc = "read" /\ ~closing /\ cb # NoCall
         /\ pc' = "read" /\ rh' = rh /\ cb' # NoCall)]_vars

\* C17: a file that is not regular is never opened and never admitted, and
\* is skipped silently: when watch() is called for a name that refers to a
\* directory, on any admission path, it returns to its caller without an
\* error, with no file opened and the table as it was.
C17_SkipsNonRegular ==
    [][(pc = "open" /\ IsDir(wname) /\ pc' # pc) =>
          /\ pc' = wret
          /\ files' = files
          /\ table' = table]_vars

\* C18: every entry of the table is keyed by the identity of the file that
\* its handle has open.
C18_KeyIsHandleIdentity ==
    \A k \in 1..Len(table) :
        files[table[k].h].open =>
            table[k].fid = <<Dev, files[table[k].h].ino>>

\* File i has only been appended to since the engine saw it: it has its name,
\* was never renamed or truncated, was admitted at most once and never
\* retired.
AppendOnly(i) ==
    /\ Linked(i)
    /\ moved[i] = ""
    /\ ~truncated[i]
    /\ admitted[i] <= 1
    /\ retired[i] = 0

\* C19: with tail_lines > 0, no character of a complete line of a file that
\* is only appended to is delivered twice, by the bootstrap tail and a later
\* read together, whenever the writer appends.
C19_TailThenReadOnce ==
    tailLines > 0 =>
        \A i \in Inos : AppendOnly(i) =>
            \A p \in 1..CompleteLen(content[i]) : cnt[i][p] <= 1

\* The batches delivered from file i beyond what it held at construction are
\* a stretch of the file in file order without repetition: every character
\* counts at most once and no undelivered character lies between two
\* delivered ones.
InOrderOnce(i) ==
    LET new == (pre[i] + 1)..Len(cnt[i])
    IN  /\ \A p \in new : cnt[i][p] <= 1
        /\ \A p, q, r \in new :
              (p < q /\ q < r /\ cnt[i][p] = 1 /\ cnt[i][r] = 1) => cnt[i][q] = 1

\* C20: for a file that is only appended to, what has been delivered of the
\* content appended since the watch began is, at every moment, a prefix of
\* that content, in file order and without repetition.
C20_AppendOnlyPrefix == \A i \in Inos : AppendOnly(i) => InOrderOnce(i)

\* C20 without a bootstrap tail.
C20_NoBootstrap == tailLines = 0 => C20_AppendOnlyPrefix

====
